---- MODULE Spec2Model ----
(***************************************************************************)
(* Conversation upsert, embedding work queue and embedding worker of the   *)
(* jarvis backend.                                                         *)
(*                                                                         *)
(* Every service method is an async function.  A step of the model is one  *)
(* store or provider operation together with the synchronous code that     *)
(* runs when its promise resolves, up to the next await.  A call occupies  *)
(* one slot of proc from its start to its return or throw.                 *)
(***************************************************************************)
EXTENDS Integers, Sequences, FiniteSets, TLC

\* ---------------------------------------------------------------- bounds
NumProcs == 2        \* call slots (requests in flight at once)
MaxCalls == 3        \* calls started in one behaviour
MaxMsgs == 4         \* longest message array of a payload
MaxBatch == 2        \* longest batch of one upsert call
MaxBatchMsgs == 1    \* longest message array in a batch of several payloads
MaxFailures == 1     \* store or provider operations that fail in one behaviour
MaxConcCalls == 3    \* calls started in one behaviour of the concurrent specification
MaxStored == 3       \* most conversations in the store a retrieval behaviour starts from
MaxStoredCalls == 2  \* calls started in one behaviour of the retrieval specification
MaxRangeStored == 3  \* most conversations in the store a date-range behaviour starts from
MaxDrainStored == 1  \* most conversations in the store a drain behaviour starts from
MaxDrainCalls == 3   \* calls started in one behaviour of the drain specification
MaxIndexed == 7      \* most embedded conversations a search over a full index starts from
MaxIndexCalls == 1   \* calls started in one behaviour of the full-index specification
MaxTitleCalls == 2   \* calls started in one behaviour of the title specification
MaxRecoverCalls == 4 \* calls started in one behaviour of the recovery specification

Procs == 1..NumProcs

\* ------------------------------------------------------------- the inputs
ExtIds == {"c1", "c2"}

\* a payload variant fixes the title and the message stream
Variants == {0, 1}

TitleOf(v) == IF v = 0 THEN "T" ELSE "U"

\* conversationSchema lets the title be absent or null: the two values that
\* are not titles
undefined == "<undefined>"
null == "<null>"

\* caller-supplied creation timestamp of a payload
CreatedAtOf(ext) == IF ext = "c1" THEN 1 ELSE 2

\* The message at array position i (0-based) of message stream s.  The two
\* streams differ in role, content and timestamp at every position.
StreamMsg(s, i) ==
    [role |-> IF (i + s) % 2 = 0 THEN "user" ELSE "assistant",
     content |-> <<s, i>>,
     timestamp |-> 10 * s + i]

\* the first n messages of stream s, as the messages array of a payload
MsgArray(s, n) == [k \in 1..n |-> StreamMsg(s, k - 1)]

\* conversationSchema: id, title, created_at, messages (at least one)
Payload(e, v, n) ==
    [id |-> e, title |-> TitleOf(v), created_at |-> CreatedAtOf(e), messages |-> MsgArray(v, n)]

Payloads == {Payload(e, v, n) : e \in ExtIds, v \in Variants, n \in 1..MaxMsgs}

BatchPayloads == {Payload(e, 0, n) : e \in ExtIds, n \in 1..MaxBatchMsgs}

\* ingestRequestSchema: at least one conversation.  Batches of one payload
\* range over every payload, longer batches over the payloads of variant 0
\* with short message arrays.
Batches ==
    UNION {[1..n -> IF n = 1 THEN Payloads ELSE BatchPayloads] : n \in 1..MaxBatch}

\* the inputs of the concurrent specification: batches of one payload of
\* variant 0
ConcBatches == {<<Payload(e, 0, n)>> : e \in ExtIds, n \in 1..2}

\* ---------------------------------------------------------------- state
VARIABLES
    conversations,   \* rows of table conversations
    messages,        \* rows of table messages
    embeddings,      \* rows of table conversations_embeddings
    queue,           \* EmbeddingQueue.queue
    isProcessing,    \* EmbeddingQueue.isProcessing
    nextId,          \* the next internal id the store generates
    now,             \* the clock read by new Date() / defaultNow()
    proc,            \* the calls in flight, one per slot
    calls,           \* calls started so far
    failures,        \* operations that have failed so far
    enqueued,        \* history: every id passed to add, in order
    claimed,         \* history: every id returned by processNext, in order
    applied,         \* history: the message array last written for each internal id
    lastCall,        \* history: the call started last and how it ended
    draining         \* history: reloadQueue has returned and only processNextConversation
                     \* calls, none with a failed operation, were made since

vars == <<conversations, messages, embeddings, queue, isProcessing, nextId, now,
          proc, calls, failures, enqueued, claimed, applied, lastCall, draining>>

NoCall == [kind |-> "none", batch |-> <<>>, status |-> "none", result |-> <<0, 0, 0>>]

\* an absent optional Date argument
NoDate == [defined |-> FALSE, t |-> 0]

IdleProc ==
    [pc |-> "idle", kind |-> "none", batch |-> <<>>, i |-> 0,
     cid |-> 0, path |-> "none", j |-> 0,
     processed |-> 0, created |-> 0, updated |-> 0,
     status |-> "none", error |-> "none",
     claim |-> 0, text |-> <<>>, vector |-> [dimensions |-> 0, of |-> <<>>], added |-> <<>>,
     prev |-> NoCall, repeat |-> FALSE, pre |-> {}, preQ |-> 0,
     query |-> <<>>, from |-> NoDate, to |-> NoDate,
     ranked |-> <<>>, meta |-> <<>>, result |-> <<>>]

Init ==
    /\ conversations = {}
    /\ messages = {}
    /\ embeddings = {}
    /\ queue = <<>>
    /\ isProcessing = FALSE
    /\ nextId = 1
    /\ now = 1
    /\ proc = [p \in Procs |-> IdleProc]
    /\ calls = 0
    /\ failures = 0
    /\ enqueued = <<>>
    /\ claimed = <<>>
    /\ applied = <<>>
    /\ lastCall = NoCall
    /\ draining = FALSE

AllIdle == \A p \in Procs : proc[p].pc = "idle"

\* -------------------------------------------------- ConversationRepository
\* findByClaudeId: the rows whose external id matches (limit 1)
findByClaudeId(ext) == {c \in conversations : c.claudeConversationId = ext}

\* the column default of conversations.title
DefaultTitle == "Untitled Conversation"

\* the mutation: messageCount is left to its column default
createRowDefaultCount(id, conv, clock) ==
    [id |-> id,
     claudeConversationId |-> conv.id,
     title |-> IF conv.title = undefined THEN DefaultTitle ELSE conv.title,
     messageCount |-> 0,
     created_at |-> conv.created_at,
     updated_at |-> clock]

\* create: insert ... returning; the store generates id and updated_at, and
\* a column whose value is undefined gets its default
createRow(id, conv, clock) ==
    [id |-> id,
     claudeConversationId |-> conv.id,
     title |-> IF conv.title = undefined THEN DefaultTitle ELSE conv.title,
     messageCount |-> Len(conv.messages),
     created_at |-> conv.created_at,
     updated_at |-> clock]

\* the mutation: the title is not part of the update
updateRowsCountOnly(rows, id, conv, clock) ==
    {IF c.id = id
        THEN [c EXCEPT !.messageCount = Len(conv.messages), !.updated_at = clock]
        ELSE c : c \in rows}

\* update: set title, messageCount and updated_at = new Date() where id
\* matches; a key whose value is undefined is left out of the set clause
updateRows(rows, id, conv, clock) ==
    {IF c.id = id
        THEN [c EXCEPT !.title = IF conv.title = undefined THEN c.title ELSE conv.title,
                       !.messageCount = Len(conv.messages),
                       !.updated_at = clock]
        ELSE c : c \in rows}

\* ------------------------------------------------------ MessageRepository
\* the mutation: sequence numbers counted from 1
messageDataFromOne(id, conv, k) ==
    [conversationId |-> id,
     sequence_number |-> k,
     role |-> conv.messages[k].role,
     content |-> conv.messages[k].content,
     created_at |-> conv.messages[k].timestamp]

\* messageData of upsertConversations: element k of the array gets
\* sequence_number k - 1 (the 0-based array index)
messageData(id, conv, k) ==
    [conversationId |-> id,
     sequence_number |-> k - 1,
     role |-> conv.messages[k].role,
     content |-> conv.messages[k].content,
     created_at |-> conv.messages[k].timestamp]

SameKey(r, m) ==
    r.conversationId = m.conversationId /\ r.sequence_number = m.sequence_number

\* the mutation: insert without the conflict clause
insertMessagePlain(rows, m) == rows \cup {m}

\* one insert ... onConflictDoUpdate(target (conversationId, sequence_number),
\* set content, created_at) of upsertMessages
insertMessage(rows, m) ==
    IF \E r \in rows : SameKey(r, m)
        THEN {IF SameKey(r, m)
                 THEN [r EXCEPT !.content = m.content, !.created_at = m.created_at]
                 ELSE r : r \in rows}
        ELSE rows \cup {m}

\* ---------------------------------------------------------- EmbeddingQueue
\* the mutation: an id already queued is not queued again
addOnce(q, id) == IF \E k \in 1..Len(q) : q[k] = id THEN q ELSE Append(q, id)

\* add: push to the tail
add(q, id) == Append(q, id)

\* the mutation: pop() in place of shift()
processNextFromTail(q, busy) ==
    IF busy \/ Len(q) = 0
        THEN [id |-> 0, queue |-> q]
        ELSE [id |-> q[Len(q)], queue |-> SubSeq(q, 1, Len(q) - 1)]

\* processNext: [returned id or 0 for undefined, the queue left]
processNext(q, busy) ==
    IF busy \/ Len(q) = 0
        THEN [id |-> 0, queue |-> q]
        ELSE [id |-> Head(q), queue |-> Tail(q)]

isEmpty(q) == Len(q) = 0

getQueueLength(q) == Len(q)

\* --------------------------------------------------- EmbeddingsRepository
\* the mutation: the insert without its conflict clause
upsertEmbeddingPlain(rows, id, vector, clock) ==
    rows \cup {[conversationId |-> id, embedding |-> vector, timestamp |-> clock]}

\* upsert: insert (conversationId, embedding) ... onConflictDoUpdate(target
\* conversationId, set embedding and the timestamp = new Date())
upsertEmbedding(rows, id, vector, clock) ==
    IF \E e \in rows : e.conversationId = id
        THEN {IF e.conversationId = id
                 THEN [e EXCEPT !.embedding = vector, !.timestamp = clock]
                 ELSE e : e \in rows}
        ELSE rows \cup {[conversationId |-> id, embedding |-> vector, timestamp |-> clock]}

\* the all-null right side of a left join row without a match
NoEmbedding == [conversationId |-> 0, embedding |-> <<>>, timestamp |-> 0]

\* conversations left join conversations_embeddings on the conversation id
leftJoin ==
    {[conv |-> c, emb |-> e] : c \in conversations, e \in embeddings \cup {NoEmbedding}}

joinedRows ==
    {r \in leftJoin :
        \/ r.emb # NoEmbedding /\ r.emb.conversationId = r.conv.id
        \/ r.emb = NoEmbedding /\ ~\E e \in embeddings : e.conversationId = r.conv.id}

\* the mutation: the join without its where clause
findConversationWithoutEmbeddingsAll == {r.conv.id : r \in joinedRows}

\* findConversationWithoutEmbeddings: ... where the embedding side is null
findConversationWithoutEmbeddings ==
    {r.conv.id : r \in {x \in joinedRows : x.emb = NoEmbedding}}

\* the orders in which the store may return a set of rows
RECURSIVE Orders(_)
Orders(S) ==
    IF S = {} THEN {<<>>}
    ELSE UNION {{<<x>> \o s : s \in Orders(S \ {x})} : x \in S}

\* rows ordered by sequence_number
RECURSIVE OrderBySeq(_)
OrderBySeq(S) ==
    IF S = {} THEN <<>>
    ELSE LET m == CHOOSE r \in S : \A o \in S : r.sequence_number <= o.sequence_number
         IN <<m>> \o OrderBySeq(S \ {m})

\* MessageRepository.findByConversationId
findByConversationId(id) == OrderBySeq({r \in messages : r.conversationId = id})

\* ------------------------------------------------------- EmbeddingService
\* generateEmbeddings: one "role: content" line per message, joined by newlines
combinedText(msgs) == [k \in 1..Len(msgs) |-> <<msgs[k].role, ": ", msgs[k].content>>]

\* the provider: a fixed-length vector determined by the text
Embed(text) == [dimensions |-> 1024, of |-> text]

\* ----------------------------------------------------------------- calls
\* the slot of a started call
StartProc(kind, b) ==
    [IdleProc EXCEPT !.kind = kind, !.batch = b, !.prev = lastCall,
        !.repeat = (kind = "upsert" /\ AllIdle
                    /\ lastCall.kind = "upsert" /\ lastCall.batch = b
                    /\ lastCall.status = "returned")]

StartCall(kind, b) ==
    [kind |-> kind, batch |-> b, status |-> IF AllIdle THEN "running" ELSE "overlapped",
     result |-> <<0, 0, 0>>]

\* the slot of a call that has returned or thrown
EndProc(pr, st, err) ==
    [IdleProc EXCEPT !.kind = pr.kind, !.batch = pr.batch, !.prev = pr.prev, !.repeat = pr.repeat,
                     !.processed = pr.processed, !.created = pr.created, !.updated = pr.updated,
                     !.claim = pr.claim, !.added = pr.added, !.status = st, !.error = err,
                     !.query = pr.query, !.from = pr.from, !.to = pr.to,
                     !.ranked = pr.ranked, !.result = pr.result]

EndCall(p, st) ==
    IF lastCall.status = "running" /\ \A q \in Procs \ {p} : proc[q].pc = "idle"
        THEN [lastCall EXCEPT !.status = st,
                 !.result = <<proc'[p].processed, proc'[p].created, proc'[p].updated>>]
        ELSE [lastCall EXCEPT !.status = "overlapped"]

\* ---------------------------------- ConversationService.upsertConversations
\* the payload the loop is at
conv(p) == proc[p].batch[proc[p].i]

\* the mutation: a changed title counts as a change too
messageCountUnchangedOrTitle(payload, existingConversation) ==
    /\ Len(payload.messages) = existingConversation.messageCount
    /\ payload.title = existingConversation.title

\* conv.messages.length === existingConversation.messageCount
messageCountUnchanged(payload, existingConversation) ==
    Len(payload.messages) = existingConversation.messageCount

\* the loop moves to the next payload, or the call returns the counters
NextPayload(pr) ==
    IF pr.i + 1 > Len(pr.batch)
        THEN EndProc([pr EXCEPT !.i = pr.i + 1], "returned", "none")
        ELSE [pr EXCEPT !.i = pr.i + 1, !.pc = "find"]

UpsertCall(p, b, max) ==
    /\ proc[p].pc = "idle"
    /\ calls < max
    /\ calls' = calls + 1
    /\ proc' = [proc EXCEPT ![p] = [StartProc("upsert", b) EXCEPT !.pc = "find", !.i = 1]]
    /\ lastCall' = StartCall("upsert", b)
    /\ draining' = FALSE
    /\ UNCHANGED <<conversations, messages, embeddings, queue, isProcessing, nextId, now,
                   failures, enqueued, claimed, applied>>

\* await findByClaudeId, then the branch on the row found
FindExisting(p) ==
    /\ proc[p].pc = "find"
    /\ LET found == findByClaudeId(conv(p).id)
           pr == [proc[p] EXCEPT !.pre = conversations, !.preQ = Len(enqueued), !.j = 0]
       IN IF found = {}
             THEN /\ proc' = [proc EXCEPT ![p] = [pr EXCEPT !.pc = "create", !.path = "create", !.cid = 0]]
                  /\ lastCall' = lastCall
             ELSE LET existingConversation == CHOOSE c \in found : TRUE
                  IN IF messageCountUnchanged(conv(p), existingConversation)
                        THEN /\ proc' = [proc EXCEPT ![p] = NextPayload([pr EXCEPT !.path = "skip",
                                                              !.cid = existingConversation.id])]
                             /\ lastCall' = IF proc'[p].pc = "idle" THEN EndCall(p, "returned") ELSE lastCall
                        ELSE /\ proc' = [proc EXCEPT ![p] = [pr EXCEPT !.pc = "update", !.path = "update",
                                                              !.cid = existingConversation.id]]
                             /\ lastCall' = lastCall
    /\ draining' = draining
    /\ UNCHANGED <<conversations, messages, embeddings, queue, isProcessing, nextId, now,
                   calls, failures, enqueued, claimed, applied>>

\* the mutation: the table has no unique constraint on the external id
CreateConversationNoConstraint(p) ==
    /\ proc[p].pc = "create"
    /\ IF conv(p).title = null
          THEN /\ proc' = [proc EXCEPT ![p] = EndProc(proc[p], "threw", "DatabaseError")]
               /\ lastCall' = EndCall(p, "threw")
               /\ UNCHANGED <<conversations, nextId, now, applied>>
          ELSE /\ conversations' = conversations \cup {createRow(nextId, conv(p), now)}
               /\ nextId' = nextId + 1
               /\ now' = now + 1
               /\ applied' = Append(applied, <<>>)
               /\ proc' = [proc EXCEPT ![p] = [proc[p] EXCEPT !.pc = "messages", !.cid = nextId, !.j = 1]]
               /\ lastCall' = lastCall
    /\ draining' = draining
    /\ UNCHANGED <<messages, embeddings, queue, isProcessing, calls, failures, enqueued, claimed>>

\* await conversationRepository.create; a second row of the same external id
\* violates the unique constraint, a null title violates the not-null
\* constraint of the column, and either way the insert throws
CreateConversation(p) ==
    /\ proc[p].pc = "create"
    /\ IF findByClaudeId(conv(p).id) # {} \/ conv(p).title = null
          THEN /\ proc' = [proc EXCEPT ![p] = EndProc(proc[p], "threw", "DatabaseError")]
               /\ lastCall' = EndCall(p, "threw")
               /\ UNCHANGED <<conversations, nextId, now, applied>>
          ELSE /\ conversations' = conversations \cup {createRow(nextId, conv(p), now)}
               /\ nextId' = nextId + 1
               /\ now' = now + 1
               /\ applied' = Append(applied, <<>>)
               /\ proc' = [proc EXCEPT ![p] = [proc[p] EXCEPT !.pc = "messages", !.cid = nextId, !.j = 1]]
               /\ lastCall' = lastCall
    /\ draining' = draining
    /\ UNCHANGED <<messages, embeddings, queue, isProcessing, calls, failures, enqueued, claimed>>

\* await conversationRepository.update(existingConversation.id, {title, messageCount})
\* a null title violates the not-null constraint of the column and the
\* update throws
UpdateConversation(p) ==
    /\ proc[p].pc = "update"
    /\ IF conv(p).title = null
          THEN /\ proc' = [proc EXCEPT ![p] = EndProc(proc[p], "threw", "DatabaseError")]
               /\ lastCall' = EndCall(p, "threw")
               /\ UNCHANGED <<conversations, now>>
          ELSE /\ conversations' = updateRows(conversations, proc[p].cid, conv(p), now)
               /\ now' = now + 1
               /\ proc' = [proc EXCEPT ![p] = [proc[p] EXCEPT !.pc = "messages", !.j = 1]]
               /\ lastCall' = lastCall
    /\ draining' = draining
    /\ UNCHANGED <<messages, embeddings, queue, isProcessing, nextId, calls, failures,
                   enqueued, claimed, applied>>

\* one iteration of the loop of upsertMessages; after the last one the id is
\* added to the queue, the counters are incremented and the loop goes on
UpsertMessage(p) ==
    /\ proc[p].pc = "messages"
    /\ messages' = insertMessage(messages, messageData(proc[p].cid, conv(p), proc[p].j))
    /\ IF proc[p].j < Len(conv(p).messages)
          THEN /\ proc' = [proc EXCEPT ![p] = [proc[p] EXCEPT !.j = proc[p].j + 1]]
               /\ UNCHANGED <<queue, enqueued, applied, lastCall>>
          ELSE /\ queue' = add(queue, proc[p].cid)
               /\ enqueued' = Append(enqueued, proc[p].cid)
               /\ applied' = [applied EXCEPT ![proc[p].cid] = conv(p).messages]
               /\ proc' = [proc EXCEPT ![p] =
                     NextPayload([proc[p] EXCEPT
                         !.processed = proc[p].processed + 1,
                         !.created = proc[p].created + (IF proc[p].path = "create" THEN 1 ELSE 0),
                         !.updated = proc[p].updated + (IF proc[p].path = "update" THEN 1 ELSE 0)])]
               /\ lastCall' = IF proc'[p].pc = "idle" THEN EndCall(p, "returned") ELSE lastCall
    /\ draining' = draining
    /\ UNCHANGED <<conversations, embeddings, isProcessing, nextId, now, calls, failures, claimed>>

\* --------------------------------- EmbeddingService.processNextConversation
\* the mutation: without an id the call throws
ProcessNextCallStrict(p, max) ==
    /\ proc[p].pc = "idle"
    /\ calls < max
    /\ calls' = calls + 1
    /\ LET r == processNext(queue, isProcessing)
       IN /\ queue' = r.queue
          /\ claimed' = IF r.id = 0 THEN claimed ELSE Append(claimed, r.id)
          /\ proc' = [proc EXCEPT ![p] =
                IF r.id = 0
                   THEN EndProc(StartProc("process", <<>>), "threw", "EmptyQueue")
                   ELSE [StartProc("process", <<>>) EXCEPT !.pc = "getMessages", !.claim = r.id]]
          /\ lastCall' = IF r.id = 0
                            THEN [StartCall("process", <<>>) EXCEPT
                                     !.status = IF AllIdle THEN "threw" ELSE "overlapped"]
                            ELSE StartCall("process", <<>>)
    /\ draining' = draining
    /\ UNCHANGED <<conversations, messages, embeddings, isProcessing, nextId, now,
                   failures, enqueued, applied>>

\* the call claims an id before its first await; without one it returns
ProcessNextCall(p, max) ==
    /\ proc[p].pc = "idle"
    /\ calls < max
    /\ calls' = calls + 1
    /\ LET r == processNext(queue, isProcessing)
       IN /\ queue' = r.queue
          /\ claimed' = IF r.id = 0 THEN claimed ELSE Append(claimed, r.id)
          /\ proc' = [proc EXCEPT ![p] =
                IF r.id = 0
                   THEN EndProc(StartProc("process", <<>>), "returned", "none")
                   ELSE [StartProc("process", <<>>) EXCEPT !.pc = "getMessages", !.claim = r.id]]
          /\ lastCall' = IF r.id = 0
                            THEN [StartCall("process", <<>>) EXCEPT
                                     !.status = IF AllIdle THEN "returned" ELSE "overlapped"]
                            ELSE StartCall("process", <<>>)
    /\ draining' = draining
    /\ UNCHANGED <<conversations, messages, embeddings, isProcessing, nextId, now,
                   failures, enqueued, applied>>

\* the mutation: a conversation without messages is skipped silently
GetMessagesSkip(p) ==
    /\ proc[p].pc = "getMessages"
    /\ LET msgs == findByConversationId(proc[p].claim)
       IN IF Len(msgs) = 0
             THEN /\ proc' = [proc EXCEPT ![p] = EndProc(proc[p], "returned", "none")]
                  /\ lastCall' = EndCall(p, "returned")
             ELSE /\ proc' = [proc EXCEPT ![p] = [proc[p] EXCEPT !.pc = "embed", !.text = combinedText(msgs)]]
                  /\ lastCall' = lastCall
    /\ draining' = draining
    /\ UNCHANGED <<conversations, messages, embeddings, queue, isProcessing, nextId, now,
                   calls, failures, enqueued, claimed, applied>>

\* await getMessages; no message is an error, otherwise the text is built
GetMessages(p) ==
    /\ proc[p].pc = "getMessages"
    /\ LET msgs == findByConversationId(proc[p].claim)
       IN IF Len(msgs) = 0
             THEN /\ proc' = [proc EXCEPT ![p] = EndProc(proc[p], "threw", "NoMessages")]
                  /\ lastCall' = EndCall(p, "threw")
             ELSE /\ proc' = [proc EXCEPT ![p] = [proc[p] EXCEPT !.pc = "embed", !.text = combinedText(msgs)]]
                  /\ lastCall' = lastCall
    /\ draining' = draining
    /\ UNCHANGED <<conversations, messages, embeddings, queue, isProcessing, nextId, now,
                   calls, failures, enqueued, claimed, applied>>

\* await embeddingClient.embed(combinedText)
GenerateEmbeddings(p) ==
    /\ proc[p].pc = "embed"
    /\ proc' = [proc EXCEPT ![p] = [proc[p] EXCEPT !.pc = "save", !.vector = Embed(proc[p].text)]]
    /\ draining' = draining
    /\ UNCHANGED <<conversations, messages, embeddings, queue, isProcessing, nextId, now,
                   calls, failures, enqueued, claimed, applied, lastCall>>

\* await embeddingsRepository.upsert(conversationId, embeddings)
SaveEmbeddings(p) ==
    /\ proc[p].pc = "save"
    /\ embeddings' = upsertEmbedding(embeddings, proc[p].claim, proc[p].vector, now)
    /\ now' = now + 1
    /\ proc' = [proc EXCEPT ![p] = EndProc(proc[p], "returned", "none")]
    /\ lastCall' = EndCall(p, "returned")
    /\ draining' = draining
    /\ UNCHANGED <<conversations, messages, queue, isProcessing, nextId,
                   calls, failures, enqueued, claimed, applied>>

\* ------------------------------------------ ConversationService.reloadQueue
ReloadQueueCall(p, max) ==
    /\ proc[p].pc = "idle"
    /\ calls < max
    /\ calls' = calls + 1
    /\ proc' = [proc EXCEPT ![p] = [StartProc("reload", <<>>) EXCEPT !.pc = "findMissing"]]
    /\ lastCall' = StartCall("reload", <<>>)
    /\ draining' = FALSE
    /\ UNCHANGED <<conversations, messages, embeddings, queue, isProcessing, nextId, now,
                   failures, enqueued, claimed, applied>>

\* await findConversationWithoutEmbeddings, then every id returned is added
ReloadQueue(p) ==
    /\ proc[p].pc = "findMissing"
    /\ \E ids \in Orders(findConversationWithoutEmbeddings) :
          /\ queue' = queue \o ids
          /\ enqueued' = enqueued \o ids
          /\ proc' = [proc EXCEPT ![p] = EndProc([proc[p] EXCEPT !.added = ids], "returned", "none")]
    /\ lastCall' = EndCall(p, "returned")
    /\ draining' = \A q \in Procs \ {p} : proc[q].pc = "idle"
    /\ UNCHANGED <<conversations, messages, embeddings, isProcessing, nextId, now,
                   calls, failures, claimed, applied>>

\* ---------------------------------- ConversationService.searchConversations
\* the limit of compareEmbeddings
K == 5

\* a raw text of one line, as the provider receives a search query
RawText(content) == << <<"", "", content>> >>

\* the search queries: two texts of one line
Queries == {RawText(<<0, 0>>), RawText(<<1, 1>>)}

\* The provider is a black box text -> vector.  Direction places the vector
\* of a text on a circle of eight directions; it depends on the number of
\* lines, on the role of the first line and on the words of the last line.
Direction(vector) ==
    LET t == vector.of
    IN (2 * Len(t) + (IF t[1][1] = "user" THEN 1 ELSE 0)
          + 3 * t[Len(t)][3][1] + t[Len(t)][3][2]) % 8

\* the operator <=> : the cosine distance of two vectors
Distance(u, v) ==
    LET d == IF Direction(u) >= Direction(v) THEN Direction(u) - Direction(v)
                                             ELSE Direction(v) - Direction(u)
    IN IF d <= 4 THEN d ELSE 8 - d

Min(a, b) == IF a <= b THEN a ELSE b

\* select ... order by embedding <=> query: the orders the store may return
\* the rows in (it breaks ties as it likes)
RECURSIVE orderByDistance(_, _)
orderByDistance(rows, queryEmbedding) ==
    IF rows = {} THEN {<<>>}
    ELSE LET nearest == {r \in rows : \A o \in rows :
                            Distance(r.embedding, queryEmbedding) <= Distance(o.embedding, queryEmbedding)}
         IN UNION {{<<r>> \o s : s \in orderByDistance(rows \ {r}, queryEmbedding)} : r \in nearest}

\* the mutation: the select without its limit
compareEmbeddingsNoLimit(rows, queryEmbedding) == orderByDistance(rows, queryEmbedding)

\* compareEmbeddings: select ... order by embedding <=> query limit 5
compareEmbeddings(rows, queryEmbedding) ==
    {SubSeq(s, 1, Min(K, Len(s))) : s \in orderByDistance(rows, queryEmbedding)}

\* findByIds: select ... where id in (ids), in the order the store returns rows
findByIds(ids) == Orders({c \in conversations : c.id \in ids})

\* select ... order by sequence_number: the orders the store may return the
\* rows in (rows of different conversations share sequence numbers, and the
\* store breaks the ties as it likes)
RECURSIVE orderBySequence(_)
orderBySequence(rows) ==
    IF rows = {} THEN {<<>>}
    ELSE LET first == {r \in rows : \A o \in rows : r.sequence_number <= o.sequence_number}
         IN UNION {{<<r>> \o s : s \in orderBySequence(rows \ {r})} : r \in first}

\* the mutation: the select without its order by
findByConversationIdsUnordered(ids) == Orders({r \in messages : r.conversationId \in ids})

\* findByConversationIds: select ... where conversationId in (ids) order by sequence_number
findByConversationIds(ids) == orderBySequence({r \in messages : r.conversationId \in ids})

\* messages.filter(msg => msg.conversationId === id)
convMessages(msgs, id) == SelectSeq(msgs, LAMBDA msg : msg.conversationId = id)

\* the result shape: one entry per metadata row, in the order of those rows,
\* each with the fetched messages of its conversation
hydrate(convMetaData, msgs) ==
    [k \in 1..Len(convMetaData) |->
        [id |-> convMetaData[k].id,
         title |-> convMetaData[k].title,
         created_at |-> convMetaData[k].created_at,
         updated_at |-> convMetaData[k].updated_at,
         messageCount |-> convMetaData[k].messageCount,
         messages |-> convMessages(msgs, convMetaData[k].id)]]

SearchCall(p, q, max) ==
    /\ proc[p].pc = "idle"
    /\ calls < max
    /\ calls' = calls + 1
    /\ proc' = [proc EXCEPT ![p] = [StartProc("search", <<>>) EXCEPT !.pc = "queryEmbed", !.query = q]]
    /\ lastCall' = StartCall("search", <<>>)
    /\ draining' = FALSE
    /\ UNCHANGED <<conversations, messages, embeddings, queue, isProcessing, nextId, now,
                   failures, enqueued, claimed, applied>>

\* await generateQueryEmbedding(query)
GenerateQueryEmbedding(p) ==
    /\ proc[p].pc = "queryEmbed"
    /\ proc' = [proc EXCEPT ![p] = [proc[p] EXCEPT !.pc = "compare", !.vector = Embed(proc[p].query)]]
    /\ draining' = draining
    /\ UNCHANGED <<conversations, messages, embeddings, queue, isProcessing, nextId, now,
                   calls, failures, enqueued, claimed, applied, lastCall>>

\* the mutation: an empty result is passed on
CompareEmbeddingsNoThrow(p) ==
    /\ proc[p].pc = "compare"
    /\ \E results \in compareEmbeddings(embeddings, proc[p].vector) :
          proc' = [proc EXCEPT ![p] = [proc[p] EXCEPT !.pc = "findByIds", !.ranked = results]]
    /\ UNCHANGED <<conversations, messages, embeddings, queue, isProcessing, nextId, now,
                   calls, failures, enqueued, claimed, applied, lastCall, draining>>

\* await compareEmbeddings(queryEmbedding); no row at all is an error
CompareEmbeddings(p) ==
    /\ proc[p].pc = "compare"
    /\ IF embeddings = {}
          THEN /\ proc' = [proc EXCEPT ![p] = EndProc(proc[p], "threw", "NoConversationsRetrieved")]
               /\ lastCall' = EndCall(p, "threw")
          ELSE /\ \E results \in compareEmbeddings(embeddings, proc[p].vector) :
                     proc' = [proc EXCEPT ![p] = [proc[p] EXCEPT !.pc = "findByIds", !.ranked = results]]
               /\ lastCall' = lastCall
    /\ draining' = draining
    /\ UNCHANGED <<conversations, messages, embeddings, queue, isProcessing, nextId, now,
                   calls, failures, enqueued, claimed, applied>>

\* the ids of the ranked embedding rows
rankedIds(pr) == [k \in 1..Len(pr.ranked) |-> pr.ranked[k].conversationId]

\* await conversationRepository.findByIds(ids)
FindByIds(p) ==
    /\ proc[p].pc = "findByIds"
    /\ \E convMetaData \in findByIds({rankedIds(proc[p])[k] : k \in 1..Len(proc[p].ranked)}) :
          proc' = [proc EXCEPT ![p] = [proc[p] EXCEPT !.pc = "findMessages", !.meta = convMetaData]]
    /\ draining' = draining
    /\ UNCHANGED <<conversations, messages, embeddings, queue, isProcessing, nextId, now,
                   calls, failures, enqueued, claimed, applied, lastCall>>

\* await messageRepository.findByConversationIds(ids), then the join and the return
FindMessages(p) ==
    /\ proc[p].pc = "findMessages"
    /\ \E msgs \in findByConversationIds({rankedIds(proc[p])[k] : k \in 1..Len(proc[p].ranked)}) :
          proc' = [proc EXCEPT ![p] = EndProc([proc[p] EXCEPT !.result = hydrate(proc[p].meta, msgs)],
                                              "returned", "none")]
    /\ lastCall' = EndCall(p, "returned")
    /\ draining' = draining
    /\ UNCHANGED <<conversations, messages, embeddings, queue, isProcessing, nextId, now,
                   calls, failures, enqueued, claimed, applied>>

\* -------------------------- ConversationService.getConversationsByDateRange
\* an optional string argument: absent, or a string
NoString == [given |-> FALSE, s |-> ""]

\* the date strings a caller passes: ISO dates, and the empty string
DateStrings == {"", "2024-01-01", "2024-01-02", "2024-01-03"}

DateArgs == {NoString} \cup {[given |-> TRUE, s |-> d] : d \in DateStrings}

\* new Date(s): the instant a date string denotes, on the clock of created_at
newDate(s) ==
    CASE s = "2024-01-01" -> 1
      [] s = "2024-01-02" -> 2
      [] s = "2024-01-03" -> 3

\* from ? new Date(from) : undefined  (undefined and "" are falsy)
toDate(arg) ==
    IF arg.given /\ arg.s # "" THEN [defined |-> TRUE, t |-> newDate(arg.s)] ELSE NoDate

\* the mutation: gt and lt in place of gte and lte
dateConditionsExclusive(c, from, to) ==
    /\ from.defined => c.created_at > from.t
    /\ to.defined => c.created_at < to.t

\* the conditions pushed by findByDateRange: gte(created_at, from), lte(created_at, to)
dateConditions(c, from, to) ==
    /\ from.defined => c.created_at >= from.t
    /\ to.defined => c.created_at <= to.t

\* select ... where and(...conditions), in the order the store returns rows
findByDateRange(from, to) == Orders({c \in conversations : dateConditions(c, from, to)})

DateRangeCall(p, fromArg, toArg, max) ==
    /\ proc[p].pc = "idle"
    /\ calls < max
    /\ calls' = calls + 1
    /\ proc' = [proc EXCEPT ![p] = [StartProc("dateRange", <<>>) EXCEPT
                    !.pc = "findByDateRange", !.query = <<fromArg, toArg>>,
                    !.from = toDate(fromArg), !.to = toDate(toArg)]]
    /\ lastCall' = StartCall("dateRange", <<>>)
    /\ draining' = FALSE
    /\ UNCHANGED <<conversations, messages, embeddings, queue, isProcessing, nextId, now,
                   failures, enqueued, claimed, applied>>

\* the mutation: without the check of the parameters, the select has no where clause
FindByDateRangeNoCheck(p) ==
    /\ proc[p].pc = "findByDateRange"
    /\ \E convs \in findByDateRange(proc[p].from, proc[p].to) :
          proc' = [proc EXCEPT ![p] = [proc[p] EXCEPT !.pc = "rangeMessages", !.meta = convs]]
    /\ UNCHANGED <<conversations, messages, embeddings, queue, isProcessing, nextId, now,
                   calls, failures, enqueued, claimed, applied, lastCall, draining>>

\* await findByDateRange(from, to); without a parameter it throws
FindByDateRange(p) ==
    /\ proc[p].pc = "findByDateRange"
    /\ IF ~proc[p].from.defined /\ ~proc[p].to.defined
          THEN /\ proc' = [proc EXCEPT ![p] = EndProc(proc[p], "threw", "AtLeastOneDateParameter")]
               /\ lastCall' = EndCall(p, "threw")
          ELSE /\ \E convs \in findByDateRange(proc[p].from, proc[p].to) :
                     proc' = [proc EXCEPT ![p] = [proc[p] EXCEPT !.pc = "rangeMessages", !.meta = convs]]
               /\ lastCall' = lastCall
    /\ draining' = draining
    /\ UNCHANGED <<conversations, messages, embeddings, queue, isProcessing, nextId, now,
                   calls, failures, enqueued, claimed, applied>>

\* await findByConversationIds(ids), then the join and the return
FindRangeMessages(p) ==
    /\ proc[p].pc = "rangeMessages"
    /\ \E msgs \in findByConversationIds({proc[p].meta[k].id : k \in 1..Len(proc[p].meta)}) :
          proc' = [proc EXCEPT ![p] = EndProc([proc[p] EXCEPT !.result = hydrate(proc[p].meta, msgs)],
                                              "returned", "none")]
    /\ lastCall' = EndCall(p, "returned")
    /\ draining' = draining
    /\ UNCHANGED <<conversations, messages, embeddings, queue, isProcessing, nextId, now,
                   calls, failures, enqueued, claimed, applied>>

\* ---------------------------------------------------------------- failure
AwaitingStore(pr) ==
    pr.pc \in {"find", "create", "update", "messages", "getMessages", "save", "findMissing",
               "compare", "findByIds", "findMessages", "findByDateRange", "rangeMessages"}

\* the mutation: a vector write that rejects has removed the old row
OperationFailsRowLost(p) ==
    /\ failures < MaxFailures
    /\ AwaitingStore(proc[p]) \/ proc[p].pc \in {"embed", "queryEmbed"}
    /\ failures' = failures + 1
    /\ proc' = [proc EXCEPT ![p] =
          EndProc(proc[p], "threw",
                  IF proc[p].pc \in {"embed", "queryEmbed"} THEN "ProviderError" ELSE "DatabaseError")]
    /\ lastCall' = EndCall(p, "threw")
    /\ draining' = FALSE
    /\ embeddings' = IF proc[p].pc = "save"
                        THEN {e \in embeddings : e.conversationId # proc[p].claim}
                        ELSE embeddings
    /\ UNCHANGED <<conversations, messages, queue, isProcessing, nextId, now,
                   calls, enqueued, claimed, applied>>

\* the mutation: the error of a payload is caught and the loop goes on
OperationFailsCaught(p) ==
    /\ failures < MaxFailures
    /\ AwaitingStore(proc[p]) \/ proc[p].pc \in {"embed", "queryEmbed"}
    /\ failures' = failures + 1
    /\ proc' = [proc EXCEPT ![p] =
          IF proc[p].kind = "upsert"
             THEN NextPayload(proc[p])
             ELSE EndProc(proc[p], "threw", "DatabaseError")]
    /\ lastCall' = IF proc'[p].pc = "idle" THEN EndCall(p, proc'[p].status) ELSE lastCall
    /\ draining' = FALSE
    /\ UNCHANGED <<conversations, messages, embeddings, queue, isProcessing, nextId, now,
                   calls, enqueued, claimed, applied>>

\* the awaited store or provider operation rejects: the call throws and
\* nothing is written by the operation
OperationFails(p) ==
    /\ failures < MaxFailures
    /\ AwaitingStore(proc[p]) \/ proc[p].pc \in {"embed", "queryEmbed"}
    /\ failures' = failures + 1
    /\ proc' = [proc EXCEPT ![p] =
          EndProc(proc[p], "threw",
                  IF proc[p].pc \in {"embed", "queryEmbed"} THEN "ProviderError" ELSE "DatabaseError")]
    /\ lastCall' = EndCall(p, "threw")
    /\ draining' = FALSE
    /\ UNCHANGED <<conversations, messages, embeddings, queue, isProcessing, nextId, now,
                   calls, enqueued, claimed, applied>>

\* ---------------------------------------------------------- specifications
Step(p) ==
    \/ FindExisting(p)
    \/ CreateConversation(p)
    \/ UpdateConversation(p)
    \/ UpsertMessage(p)
    \/ GetMessages(p)
    \/ GenerateEmbeddings(p)
    \/ SaveEmbeddings(p)
    \/ ReloadQueue(p)
    \/ OperationFails(p)

\* one caller that awaits each call before it makes the next
SeqUpsert == AllIdle /\ \E b \in Batches : UpsertCall(1, b, MaxCalls)
SeqProcessNext == AllIdle /\ ProcessNextCall(1, MaxCalls)
SeqReloadQueue == AllIdle /\ ReloadQueueCall(1, MaxCalls)

Next ==
    \/ SeqUpsert
    \/ SeqProcessNext
    \/ SeqReloadQueue
    \/ \E p \in Procs : Step(p)

Spec == Init /\ [][Next]_vars

\* concurrent callers: a call may start while others are suspended
ConcUpsert == \E p \in Procs : \E b \in ConcBatches : UpsertCall(p, b, MaxConcCalls)
ConcProcessNext == \E p \in Procs : ProcessNextCall(p, MaxConcCalls)
ConcReloadQueue == \E p \in Procs : ReloadQueueCall(p, MaxConcCalls)

NextConc ==
    \/ ConcUpsert
    \/ ConcProcessNext
    \/ ConcReloadQueue
    \/ \E p \in Procs : Step(p)

SpecConc == Init /\ [][NextConc]_vars

\* ------------------------------------------------ payloads without title
\* what conversationSchema admits as the title: a string, nothing, null
Titles == {TitleOf(0), undefined, null}

TitlePayloads ==
    {[id |-> e, title |-> t, created_at |-> CreatedAtOf(e), messages |-> MsgArray(0, n)] :
        e \in ExtIds, t \in Titles, n \in 1..2}

TitleStep(p) ==
    \/ FindExisting(p)
    \/ CreateConversation(p)
    \/ UpdateConversation(p)
    \/ UpsertMessage(p)

TitleUpsert == AllIdle /\ \E payload \in TitlePayloads : UpsertCall(1, <<payload>>, MaxTitleCalls)

NextTitle ==
    \/ TitleUpsert
    \/ \E p \in Procs : TitleStep(p)

\* ingestion of payloads with and without a title, one caller at a time, no
\* store failure
SpecTitle == Init /\ [][NextTitle]_vars

\* ------------------------------------------------- a store with contents
\* the external ids of the conversations a retrieval behaviour starts with
StoredExtIds == <<"c1", "c2", "c3", "c4", "c5", "c6", "c7", "c8", "c9">>

\* the payload that conversation k was ingested with
StoredPayload(k) ==
    [id |-> StoredExtIds[k], title |-> TitleOf(k % 2), created_at |-> CreatedAtOf(StoredExtIds[k]),
     messages |-> MsgArray(k % 4, IF k \in {2, 3} THEN 2 ELSE 1)]

StoredConversations(n) == {createRow(k, StoredPayload(k), k) : k \in 1..n}

StoredMessages(n) ==
    UNION {{messageData(k, StoredPayload(k), j) : j \in 1..Len(StoredPayload(k).messages)} : k \in 1..n}

\* the first e conversations have been embedded
StoredEmbeddings(n, e) ==
    {[conversationId |-> k,
      embedding |-> Embed(combinedText(StoredPayload(k).messages)),
      timestamp |-> n + k] : k \in 1..e}

\* what the queue holds: nothing, the id of the first conversation, or that
\* id twice (added by the ingestion and again by a reconciliation sweep)
StoredQueues(n) == IF n = 0 THEN {<<>>} ELSE {<<>>, <<1>>, <<1, 1>>}

\* the state after n conversations were ingested, the first e of them were
\* embedded, and the queue holds q
InitStored ==
    \E n \in 0..MaxStored : \E e \in 0..n : \E q \in StoredQueues(n) :
        /\ conversations = StoredConversations(n)
        /\ messages = StoredMessages(n)
        /\ embeddings = StoredEmbeddings(n, e)
        /\ queue = q
        /\ isProcessing = FALSE
        /\ nextId = n + 1
        /\ now = 2 * n + 1
        /\ proc = [p \in Procs |-> IdleProc]
        /\ calls = 0
        /\ failures = 0
        /\ enqueued = q
        /\ claimed = <<>>
        /\ applied = [k \in 1..n |-> StoredPayload(k).messages]
        /\ lastCall = NoCall
        /\ draining = FALSE

StoredStep(p) ==
    \/ GetMessages(p)
    \/ GenerateEmbeddings(p)
    \/ SaveEmbeddings(p)
    \/ GenerateQueryEmbedding(p)
    \/ CompareEmbeddings(p)
    \/ FindByIds(p)
    \/ FindMessages(p)
    \/ FindByDateRange(p)
    \/ FindRangeMessages(p)
    \/ OperationFails(p)

StoredSearch == AllIdle /\ \E q \in Queries : SearchCall(1, q, MaxStoredCalls)
StoredProcessNext == AllIdle /\ ProcessNextCall(1, MaxStoredCalls)
StoredDateRange ==
    AllIdle /\ \E fromArg, toArg \in DateArgs : DateRangeCall(1, fromArg, toArg, MaxStoredCalls)

NextStored ==
    \/ StoredSearch
    \/ StoredProcessNext
    \/ StoredDateRange
    \/ \E p \in Procs : StoredStep(p)

\* retrieval and embedding over a store with contents, one caller at a time
SpecStored == InitStored /\ [][NextStored]_vars

\* the state after n conversations were ingested and every one was embedded
InitIndexed ==
    \E n \in 0..MaxIndexed :
        /\ conversations = StoredConversations(n)
        /\ messages = StoredMessages(n)
        /\ embeddings = StoredEmbeddings(n, n)
        /\ queue = <<>>
        /\ isProcessing = FALSE
        /\ nextId = n + 1
        /\ now = 2 * n + 1
        /\ proc = [p \in Procs |-> IdleProc]
        /\ calls = 0
        /\ failures = 0
        /\ enqueued = <<>>
        /\ claimed = <<>>
        /\ applied = [k \in 1..n |-> StoredPayload(k).messages]
        /\ lastCall = NoCall
        /\ draining = FALSE

IndexedStep(p) ==
    \/ GenerateQueryEmbedding(p)
    \/ CompareEmbeddings(p)
    \/ FindByIds(p)
    \/ FindMessages(p)
    \/ OperationFails(p)

IndexedSearch == AllIdle /\ \E q \in Queries : SearchCall(1, q, MaxIndexCalls)

NextIndexed ==
    \/ IndexedSearch
    \/ \E p \in Procs : IndexedStep(p)

\* search over a store whose index may hold more than K embeddings
SpecIndexed == InitIndexed /\ [][NextIndexed]_vars

\* the state after n conversations were ingested and none was embedded yet
InitRange ==
    \E n \in 0..MaxRangeStored :
        /\ conversations = StoredConversations(n)
        /\ messages = StoredMessages(n)
        /\ embeddings = {}
        /\ queue = [k \in 1..n |-> k]
        /\ isProcessing = FALSE
        /\ nextId = n + 1
        /\ now = n + 1
        /\ proc = [p \in Procs |-> IdleProc]
        /\ calls = 0
        /\ failures = 0
        /\ enqueued = [k \in 1..n |-> k]
        /\ claimed = <<>>
        /\ applied = [k \in 1..n |-> StoredPayload(k).messages]
        /\ lastCall = NoCall
        /\ draining = FALSE

RangeStep(p) ==
    \/ FindByDateRange(p)
    \/ FindRangeMessages(p)
    \/ OperationFails(p)

RangeCall ==
    AllIdle /\ \E fromArg, toArg \in DateArgs : DateRangeCall(1, fromArg, toArg, MaxStoredCalls)

NextRange ==
    \/ RangeCall
    \/ \E p \in Procs : RangeStep(p)

\* date-range retrieval over a store with contents, one caller at a time
SpecRange == InitRange /\ [][NextRange]_vars

\* the state after n conversations were ingested, the first e of them were
\* embedded, and the queue holds q, for the drain specification
InitDrain ==
    \E n \in 0..MaxDrainStored : \E e \in 0..n : \E q \in StoredQueues(n) :
        /\ conversations = StoredConversations(n)
        /\ messages = StoredMessages(n)
        /\ embeddings = StoredEmbeddings(n, e)
        /\ queue = q
        /\ isProcessing = FALSE
        /\ nextId = n + 1
        /\ now = 2 * n + 1
        /\ proc = [p \in Procs |-> IdleProc]
        /\ calls = 0
        /\ failures = 0
        /\ enqueued = q
        /\ claimed = <<>>
        /\ applied = [k \in 1..n |-> StoredPayload(k).messages]
        /\ lastCall = NoCall
        /\ draining = FALSE

\* the batches of the drain specification: the first conversation, with one
\* or two messages of stream 0
DrainBatches == {<<Payload(StoredExtIds[1], 0, n)>> : n \in 1..2}

DrainStep(p) ==
    \/ FindExisting(p)
    \/ CreateConversation(p)
    \/ UpdateConversation(p)
    \/ UpsertMessage(p)
    \/ GetMessages(p)
    \/ GenerateEmbeddings(p)
    \/ SaveEmbeddings(p)
    \/ OperationFails(p)

DrainUpsert == \E p \in Procs : \E b \in DrainBatches : UpsertCall(p, b, MaxDrainCalls)
DrainProcessNext == \E p \in Procs : ProcessNextCall(p, MaxDrainCalls)

NextDrain ==
    \/ DrainUpsert
    \/ DrainProcessNext
    \/ \E p \in Procs : DrainStep(p)

\* ingestion and overlapping worker calls over a store with contents
SpecDrain == InitDrain /\ [][NextDrain]_vars

\* ------------------------------------------------------------- recovery
RecoverStep(p) ==
    \/ DrainStep(p)
    \/ ReloadQueue(p)

RecoverUpsert == AllIdle /\ \E b \in DrainBatches : UpsertCall(1, b, MaxRecoverCalls)
RecoverProcessNext == AllIdle /\ ProcessNextCall(1, MaxRecoverCalls)
RecoverReloadQueue == AllIdle /\ ReloadQueueCall(1, MaxRecoverCalls)

NextRecover ==
    \/ RecoverUpsert
    \/ RecoverProcessNext
    \/ RecoverReloadQueue
    \/ \E p \in Procs : RecoverStep(p)

\* ingestion, embedding and the reconciliation sweep over a store with
\* contents, one caller at a time
SpecRecover == InitDrain /\ [][NextRecover]_vars

\* ------------------------------------------------------------------ claims
DistinctIds(b) == \A a, c \in 1..Len(b) : b[a].id = b[c].id => a = c

MessagesOf(rows, id) == {r \in rows : r.conversationId = id}

Counters(pr) == <<pr.processed, pr.created, pr.updated>>

\* the step with which call p has dealt with the payload it is at, without a throw
PayloadDone(p) ==
    /\ proc[p].kind = "upsert"
    /\ proc[p].pc # "idle"
    /\ \/ proc'[p].pc # "idle" /\ proc'[p].i = proc[p].i + 1
       \/ proc'[p].pc = "idle" /\ proc'[p].status = "returned"

\* the message rows a conversation has when exactly the array msgs is stored for it
RowsFor(id, msgs) ==
    {[conversationId |-> id, sequence_number |-> k - 1, role |-> msgs[k].role,
      content |-> msgs[k].content, created_at |-> msgs[k].timestamp] : k \in 1..Len(msgs)}

\* C1: Idempotence of upsert.  When upsertConversations has returned for a
\* batch (of payloads of distinct external ids) and is called again with the
\* identical batch, no other call in between, then no step of the second call
\* changes a message row or adds to the embedding queue, and the second call
\* returns {processed: 0, created: 0, updated: 0}.
IdempotentUpsert ==
    [][\A p \in Procs :
          (proc[p].repeat /\ proc[p].pc # "idle" /\ DistinctIds(proc[p].batch)) =>
              /\ messages' = messages
              /\ queue' = queue
              /\ enqueued' = enqueued
              /\ (proc'[p].pc = "idle" /\ proc'[p].status = "returned"
                     => Counters(proc'[p]) = <<0, 0, 0>>)]_vars

\* the second of two identical calls has returned, over a conversation that
\* the first call wrote
IdempotentUpsertWitness ==
    \E p \in Procs :
        /\ proc[p].repeat /\ proc[p].pc = "idle" /\ proc[p].status = "returned"
        /\ DistinctIds(proc[p].batch)
        /\ proc[p].prev.result # <<0, 0, 0>>
        /\ messages # {}

\* C2: Unchanged-count no-op.  When the lookup finds a conversation whose
\* stored message count equals the length of the payload's message array, the
\* call goes on to the next payload (or returns) in that very step, and the
\* conversation rows (title, message count, last-update timestamp), the
\* message rows, the queue and the three counters are as they were, whatever
\* the payload's title and message contents are.
UnchangedCountNoOp ==
    [][\A p \in Procs :
          (/\ proc[p].pc = "find"
           /\ \E c \in conversations :
                 /\ c.claudeConversationId = conv(p).id
                 /\ c.messageCount = Len(conv(p).messages)
           /\ proc'[p] # proc[p]
           /\ proc'[p].status # "threw") =>
              /\ PayloadDone(p)
              /\ conversations' = conversations
              /\ messages' = messages
              /\ queue' = queue
              /\ enqueued' = enqueued
              /\ Counters(proc'[p]) = Counters(proc[p])]_vars

\* a call has skipped a payload whose title and first message both differ
\* from what is stored for its external id
UnchangedCountNoOpWitness ==
    \E p \in Procs : \E c \in conversations : \E r \in messages :
        /\ proc[p].kind = "upsert" /\ proc[p].pc = "idle" /\ proc[p].status = "returned"
        /\ Len(proc[p].batch) = 1
        /\ Counters(proc[p]) = <<0, 0, 0>>
        /\ c.claudeConversationId = proc[p].batch[1].id
        /\ c.messageCount = Len(proc[p].batch[1].messages)
        /\ c.title # proc[p].batch[1].title
        /\ r.conversationId = c.id /\ r.sequence_number = 0
        /\ r.content # proc[p].batch[1].messages[1].content

\* C3: Create path.  When a payload whose external id matched no stored
\* conversation at the lookup has been dealt with without a throw, exactly
\* one conversation row has that external id, it is a new row with message
\* count n (the length of the payload's message array), its message rows are
\* exactly the n rows with sequence numbers 0..n-1 in array order, its id was
\* added to the queue exactly once, and created and processed are one higher
\* while updated is unchanged.
CreatePath ==
    [][\A p \in Procs :
          (/\ PayloadDone(p)
           /\ proc[p].pc = "messages"
           /\ ~\E c \in proc[p].pre : c.claudeConversationId = conv(p).id) =>
              LET n == Len(conv(p).messages)
                  rows == {c \in conversations' : c.claudeConversationId = conv(p).id}
              IN /\ Cardinality(rows) = 1
                 /\ \A c \in rows :
                       /\ c.id \notin {o.id : o \in proc[p].pre}
                       /\ c.messageCount = n
                       /\ Cardinality(MessagesOf(messages', c.id)) = n
                       /\ {r.sequence_number : r \in MessagesOf(messages', c.id)} = 0..(n - 1)
                       /\ MessagesOf(messages', c.id) = RowsFor(c.id, conv(p).messages)
                       /\ enqueued' = SubSeq(enqueued', 1, proc[p].preQ) \o <<c.id>>
                       /\ queue' = Append(queue, c.id)
                 /\ proc'[p].created = proc[p].created + 1
                 /\ proc'[p].processed = proc[p].processed + 1
                 /\ proc'[p].updated = proc[p].updated]_vars

\* a call has returned after creating a conversation of several messages
CreatePathWitness ==
    \E p \in Procs : \E c \in conversations :
        /\ proc[p].kind = "upsert" /\ proc[p].pc = "idle" /\ proc[p].status = "returned"
        /\ Counters(proc[p]) = <<1, 1, 0>>
        /\ c.claudeConversationId = proc[p].batch[1].id
        /\ c.messageCount >= 2
        /\ Cardinality(MessagesOf(messages, c.id)) = c.messageCount
        /\ \E k \in 1..Len(queue) : queue[k] = c.id

\* the scenario of C4: the call before created the conversation from the
\* first two messages of a stream, this call sent the first four
GrowthScenario(p) ==
    \E e \in ExtIds : \E v \in Variants :
        /\ proc[p].kind = "upsert" /\ proc[p].pc = "idle" /\ proc[p].status = "returned"
        /\ proc[p].prev.kind = "upsert" /\ proc[p].prev.status = "returned"
        /\ proc[p].prev.batch = <<Payload(e, v, 2)>>
        /\ proc[p].prev.result = <<1, 1, 0>>
        /\ proc[p].batch = <<Payload(e, v, 4)>>

\* C4: Update path.  When a payload whose external id matched, at the lookup,
\* a conversation with another message count has been dealt with without a
\* throw, no conversation row was added, the row found has the payload's
\* title and message count, its id was added to the queue exactly once, and
\* updated and processed are one higher while created is unchanged.  A call
\* with the two messages that created a conversation plus two more returns
\* {processed: 1, created: 0, updated: 1} and leaves exactly 4 message rows.
UpdatePath ==
    /\ [][\A p \in Procs :
            (/\ PayloadDone(p)
             /\ proc[p].pc = "messages"
             /\ \E c \in proc[p].pre :
                   /\ c.claudeConversationId = conv(p).id
                   /\ c.messageCount # Len(conv(p).messages)) =>
                /\ {c.id : c \in conversations'} = {c.id : c \in proc[p].pre}
                /\ \A c \in conversations' :
                      c.claudeConversationId = conv(p).id =>
                          /\ c.title = conv(p).title
                          /\ c.messageCount = Len(conv(p).messages)
                          /\ \E o \in proc[p].pre :
                                o.id = c.id /\ o.claudeConversationId = conv(p).id
                          /\ enqueued' = SubSeq(enqueued', 1, proc[p].preQ) \o <<c.id>>
                          /\ queue' = Append(queue, c.id)
                /\ proc'[p].updated = proc[p].updated + 1
                /\ proc'[p].processed = proc[p].processed + 1
                /\ proc'[p].created = proc[p].created]_vars
    /\ [](\A p \in Procs :
            GrowthScenario(p) =>
                /\ Counters(proc[p]) = <<1, 0, 1>>
                /\ \A c \in conversations :
                      c.claudeConversationId = proc[p].batch[1].id =>
                          Cardinality(MessagesOf(messages, c.id)) = 4)

\* the scenario has happened
UpdatePathWitness ==
    \E p \in Procs : GrowthScenario(p) /\ Counters(proc[p]) = <<1, 0, 1>>

\* C5: Sequence invariant.  After any sequence of upsert calls in which no
\* operation failed, every conversation has exactly the message rows with
\* sequence numbers 0..N-1, N the length of the message array last applied to
\* it, and the row at sequence number i holds the message at array position i.
SequenceInvariant ==
    (AllIdle /\ failures = 0) =>
        \A c \in conversations :
            /\ {r.sequence_number : r \in MessagesOf(messages, c.id)} = 0..(Len(applied[c.id]) - 1)
            /\ MessagesOf(messages, c.id) = RowsFor(c.id, applied[c.id])

\* C6: Message dedup key.  No two message rows share a (conversation,
\* sequence number) pair, and a write at a pair that has a row puts the
\* written content in that row and leaves the number of rows of the
\* conversation as it was.
MessageDedupKey ==
    /\ [](\A r1, r2 \in messages : SameKey(r1, r2) => r1 = r2)
    /\ [][\A p \in Procs :
            (/\ proc[p].pc = "messages"
             /\ proc'[p] # proc[p]
             /\ proc'[p].status # "threw"
             /\ \E r \in messages : SameKey(r, messageData(proc[p].cid, conv(p), proc[p].j))) =>
                LET m == messageData(proc[p].cid, conv(p), proc[p].j)
                IN /\ Cardinality(MessagesOf(messages', m.conversationId))
                        = Cardinality(MessagesOf(messages, m.conversationId))
                   /\ \A r \in messages' : SameKey(r, m) => r.content = m.content]_vars

\* a row has been overwritten in place: it has the content of one message
\* stream and the role of the other
MessageDedupKeyWitness ==
    \E r \in messages :
        r.role # StreamMsg(r.content[1], r.sequence_number).role

\* C7: Queue order and conservation.  In every interleaving of the calls, the
\* ids returned by processNext so far, in the order they were returned,
\* followed by the ids now in the queue, are the ids passed to add so far in
\* the order they were added: ids are claimed in insertion order, each added
\* occurrence at most once, none lost.
QueueOrderConservation == claimed \o queue = enqueued

\* a processNextConversation call that claimed an id is suspended while an
\* upsert call, started after it, has added another id behind the claim
QueueOrderConservationWitness ==
    /\ Len(claimed) >= 1
    /\ Len(queue) >= 1
    /\ lastCall.kind = "upsert"
    /\ \E p, q \in Procs :
          /\ proc[p].kind = "process" /\ proc[p].pc # "idle"
          /\ proc[q].kind = "upsert" /\ proc[q].status = "returned"

\* C8: Queue size accounting.  getQueueLength() is the number of add calls
\* less the number of processNext calls that returned an id, and isEmpty()
\* holds exactly when it is 0; every add makes the queue one longer, also for
\* an id that is already queued; processNext on an empty queue returns
\* nothing and leaves the queue as it is.
QueueSizeAccounting ==
    /\ [](/\ getQueueLength(queue) = Len(enqueued) - Len(claimed)
          /\ isEmpty(queue) <=> (getQueueLength(queue) = 0))
    /\ [][/\ Len(enqueued') > Len(enqueued) =>
                getQueueLength(queue') - getQueueLength(queue) = Len(enqueued') - Len(enqueued)
          /\ \A p \in Procs :
                (/\ proc[p].pc = "idle"
                 /\ proc'[p] # proc[p]
                 /\ proc'[p].kind = "process"
                 /\ isEmpty(queue)) =>
                    /\ queue' = queue
                    /\ claimed' = claimed
                    /\ proc'[p].claim = 0
                    /\ proc'[p].pc = "idle" /\ proc'[p].status = "returned"]_vars

\* the same id is queued twice, and a processNext call on the empty queue has
\* returned without an id
QueueSizeAccountingWitness ==
    \/ \E a, b \in 1..Len(queue) : a # b /\ queue[a] = queue[b]
    \/ \E p \in Procs :
          /\ proc[p].kind = "process" /\ proc[p].status = "returned" /\ proc[p].claim = 0
          /\ Len(enqueued) >= 1

\* C9: Queue liveness.  Once reloadQueue has returned and then
\* processNextConversation was called, with no failed operation, until the
\* queue is empty, every conversation has exactly one embedding row.
QueueLiveness ==
    (draining /\ AllIdle /\ isEmpty(queue)) =>
        \A c \in conversations :
            Cardinality({e \in embeddings : e.conversationId = c.id}) = 1

\* C10: reloadQueue selection.  The one step of reloadQueue that reads the
\* store appends to the queue, in some order, the id of every conversation
\* without an embedding row exactly once, the id of no conversation with an
\* embedding row, and nothing when every conversation has an embedding row.
ReloadQueueSelection ==
    [][\A p \in Procs :
          (proc[p].pc = "findMissing" /\ proc'[p].pc = "idle" /\ proc'[p].status = "returned") =>
              LET missing == {c.id : c \in {x \in conversations :
                                  ~\E e \in embeddings : e.conversationId = x.id}}
                  ids == proc'[p].added
              IN /\ queue' = queue \o ids
                 /\ \A id \in missing : Cardinality({k \in 1..Len(ids) : ids[k] = id}) = 1
                 /\ \A k \in 1..Len(ids) : ids[k] \in missing
                 /\ (missing = {} => queue' = queue)]_vars

\* reloadQueue has returned after adding one conversation while another has
\* an embedding row
ReloadQueueSelectionWitness ==
    \E p \in Procs : \E c \in conversations :
        /\ proc[p].kind = "reload" /\ proc[p].pc = "idle" /\ proc[p].status = "returned"
        /\ Len(proc[p].added) = 1
        /\ c.id # proc[p].added[1]
        /\ \E e \in embeddings : e.conversationId = c.id

\* the embedding rows of a conversation
EmbeddingsOf(rows, id) == {e \in rows : e.conversationId = id}

\* C11: One embedding per conversation.  In every reachable state no
\* conversation has two embedding rows.  The vector write of a
\* processNextConversation run for a conversation without a row inserts one
\* row holding the computed vector; for a conversation with a row it replaces
\* the vector and the timestamp of that row, and the number of rows stays the
\* same.  This holds when the same id is claimed again from a duplicate queue
\* entry.
OneEmbeddingPerConversation ==
    /\ [](\A c \in conversations : Cardinality(EmbeddingsOf(embeddings, c.id)) <= 1)
    /\ [][\A p \in Procs :
             (proc[p].pc = "save" /\ proc'[p].pc = "idle" /\ proc'[p].status = "returned") =>
                 LET id == proc[p].claim
                     computed == [conversationId |-> id, embedding |-> proc[p].vector, timestamp |-> now]
                 IN /\ EmbeddingsOf(embeddings', id) = {computed}
                    /\ \A e \in EmbeddingsOf(embeddings, id) : e.timestamp < computed.timestamp
                    /\ embeddings' \ {computed} = embeddings \ EmbeddingsOf(embeddings, id)]_vars

\* two runs have claimed the same id from a duplicate queue entry and the
\* second has returned, over a row that the first run or an earlier one wrote
OneEmbeddingPerConversationWitness ==
    /\ Len(claimed) = 2 /\ claimed[1] = claimed[2]
    /\ failures = 0
    /\ lastCall.kind = "process" /\ lastCall.status = "returned"
    /\ \E p \in Procs : proc[p].pc = "idle" /\ proc[p].kind = "process" /\ proc[p].claim = claimed[2]
    /\ \E e \in EmbeddingsOf(embeddings, claimed[2]) : e.timestamp = now - 1

\* a search call in slot p has returned its result
SearchReturned(p) ==
    proc[p].kind = "search" /\ proc[p].pc = "idle" /\ proc[p].status = "returned"

\* C12: Fixed K.  A search over a store with E >= 1 embedding rows returns
\* exactly min(5, E) conversations, all different, and never more than 5.
FixedK ==
    \A p \in Procs :
        SearchReturned(p) =>
            LET E == Cardinality(embeddings)
                result == proc[p].result
            IN /\ E >= 1
               /\ Len(result) = IF E <= 5 THEN E ELSE 5
               /\ Len(result) <= 5
               /\ \A a, b \in 1..Len(result) : result[a].id = result[b].id => a = b

\* a search over seven embedding rows has returned five conversations
FixedKWitness ==
    \E p \in Procs :
        /\ SearchReturned(p)
        /\ Cardinality(embeddings) = 7
        /\ Len(proc[p].result) = 5

\* C13: Ranking order preserved through hydration.  The conversations of a
\* search result are in the order in which compareEmbeddings ranked their
\* embedding rows, so their distances from the query vector never decrease
\* along the list, in whatever order findByIds returns the metadata rows.
RankingOrderPreserved ==
    \A p \in Procs :
        SearchReturned(p) =>
            /\ [k \in 1..Len(proc[p].result) |-> proc[p].result[k].id] = rankedIds(proc[p])
            /\ \A a, b \in 1..Len(proc[p].result) :
                  a <= b =>
                      \A x \in EmbeddingsOf(embeddings, proc[p].result[a].id) :
                      \A y \in EmbeddingsOf(embeddings, proc[p].result[b].id) :
                          Distance(x.embedding, Embed(proc[p].query)) <= Distance(y.embedding, Embed(proc[p].query))

\* C14: Empty index fails loudly.  When there is no embedding row at all,
\* the nearest-neighbour step of a search ends the call with an error and no
\* result; no search returns a list over an empty index; and the error of
\* the empty index is never raised while an embedding row exists.
EmptyIndexFailsLoudly ==
    /\ [][\A p \in Procs :
             (proc[p].kind = "search" /\ proc[p].pc = "compare" /\ proc'[p] # proc[p]) =>
                 /\ embeddings = {} =>
                        /\ proc'[p].pc = "idle" /\ proc'[p].status = "threw"
                        /\ proc'[p].result = <<>>
                 /\ embeddings # {} => proc'[p].error # "NoConversationsRetrieved"]_vars
    /\ [](\A p \in Procs : SearchReturned(p) => embeddings # {})

\* a search over a store with conversations and no embedding row has thrown
\* the error of the empty index
EmptyIndexFailsLoudlyWitness ==
    \E p \in Procs :
        /\ proc[p].kind = "search" /\ proc[p].pc = "idle" /\ proc[p].status = "threw"
        /\ proc[p].error = "NoConversationsRetrieved"
        /\ conversations # {} /\ embeddings = {}

\* a date-range call in slot p has returned its result
RangeReturned(p) ==
    proc[p].kind = "dateRange" /\ proc[p].pc = "idle" /\ proc[p].status = "returned"

\* the caller has supplied a bound: a date string
BoundGiven(arg) == arg.given /\ arg.s # ""

\* C15: Date range without bounds is an error.  Called with neither from nor
\* to, getConversationsByDateRange ends with an error and no result (neither
\* an empty list nor all conversations); called with at least one bound it
\* does not raise that error.
NoBoundsIsError ==
    /\ [][\A p \in Procs :
             (proc[p].kind = "dateRange" /\ proc[p].pc = "findByDateRange" /\ proc'[p] # proc[p]) =>
                 IF ~BoundGiven(proc[p].query[1]) /\ ~BoundGiven(proc[p].query[2])
                    THEN /\ proc'[p].pc = "idle" /\ proc'[p].status = "threw"
                         /\ proc'[p].result = <<>>
                    ELSE proc'[p].error # "AtLeastOneDateParameter"]_vars
    /\ [](\A p \in Procs :
             RangeReturned(p) => BoundGiven(proc[p].query[1]) \/ BoundGiven(proc[p].query[2]))

\* a call without bounds over a store with conversations has thrown
NoBoundsIsErrorWitness ==
    \E p \in Procs :
        /\ proc[p].kind = "dateRange" /\ proc[p].pc = "idle" /\ proc[p].status = "threw"
        /\ proc[p].error = "AtLeastOneDateParameter"
        /\ ~proc[p].query[1].given /\ ~proc[p].query[2].given
        /\ conversations # {}

\* the day of the month of a date string, which is its instant on the clock
\* of created_at
DayOf(s) == IF s = "2024-01-01" THEN 1 ELSE IF s = "2024-01-02" THEN 2 ELSE 3

\* C16: Date range bounds are inclusive.  A returned call holds each
\* conversation once whose creation timestamp t satisfies from <= t when from
\* is given and t <= to when to is given, and no other; with from = to = X
\* these are the conversations created at X.
InclusiveBounds ==
    \A p \in Procs :
        RangeReturned(p) =>
            LET fromArg == proc[p].query[1]
                toArg == proc[p].query[2]
                result == proc[p].result
                expected == {c \in conversations :
                                /\ BoundGiven(fromArg) => DayOf(fromArg.s) <= c.created_at
                                /\ BoundGiven(toArg) => c.created_at <= DayOf(toArg.s)}
            IN /\ {result[k].id : k \in 1..Len(result)} = {c.id : c \in expected}
               /\ Len(result) = Cardinality(expected)
               /\ (BoundGiven(fromArg) /\ BoundGiven(toArg) /\ fromArg.s = toArg.s) =>
                      {result[k].id : k \in 1..Len(result)}
                          = {c.id : c \in {x \in conversations : x.created_at = DayOf(fromArg.s)}}

\* a call with from = to = X has returned the conversations created at X
\* and left out a conversation created at another instant
InclusiveBoundsWitness ==
    \E p \in Procs :
        /\ RangeReturned(p)
        /\ BoundGiven(proc[p].query[1]) /\ proc[p].query[1] = proc[p].query[2]
        /\ Len(proc[p].result) >= 1
        /\ Len(proc[p].result) < Cardinality(conversations)

\* the step with which the upsert call in slot p ends with an error
UpsertThrows(p) ==
    /\ proc[p].kind = "upsert" /\ proc[p].pc # "idle"
    /\ proc'[p].pc = "idle" /\ proc'[p].status = "threw"

\* C17: Batch failure semantics.  When a store operation fails while
\* upsertConversations is at batch index i, that step ends the call with an
\* error and writes nothing.  What the call wrote for the indices below i is
\* in place: the conversation rows with the payloads' message counts, one
\* queue entry for each payload the call counted, all of them for indices
\* below i, and for each of these a message row with the payload's content
\* at each position.
\* The conversation rows of the payloads after index i are as they were when
\* the call looked up the payload at index i.  A step of a call that has not
\* failed never leaves it at a lower index, and a call that has ended takes no
\* further step.
BatchFailureSemantics ==
    /\ [][\A p \in Procs :
             UpsertThrows(p) =>
                 LET batch == proc[p].batch
                     i == proc[p].i
                     n == proc[p].processed
                     rowsOf(rows, k) == {c \in rows : c.claudeConversationId = batch[k].id}
                 IN /\ conversations' = conversations
                    /\ messages' = messages
                    /\ queue' = queue
                    /\ DistinctIds(batch) =>
                          /\ \A k \in 1..(i - 1) :
                                \E c \in conversations' :
                                    /\ c.claudeConversationId = batch[k].id
                                    /\ c.messageCount = Len(batch[k].messages)
                          /\ n <= i - 1
                          /\ Len(queue') >= n
                          /\ \A m \in 1..n :
                                \E c \in conversations' : \E k \in 1..(i - 1) :
                                    /\ c.id = queue'[Len(queue') - n + m]
                                    /\ c.claudeConversationId = batch[k].id
                                    /\ \A j \in 1..Len(batch[k].messages) :
                                          \E r \in messages' :
                                              /\ r.conversationId = c.id
                                              /\ r.sequence_number = j - 1
                                              /\ r.content = batch[k].messages[j].content
                          /\ proc[p].pc # "find" =>
                                \A k \in (i + 1)..Len(batch) :
                                    rowsOf(conversations', k) = rowsOf(proc[p].pre, k)]_vars
    /\ [][\A p \in Procs :
             /\ (proc[p].kind = "upsert" /\ proc[p].pc # "idle" /\ proc'[p] # proc[p]
                    /\ failures' # failures) => UpsertThrows(p)
             /\ (proc[p].kind = "upsert" /\ proc[p].pc # "idle" /\ proc'[p].pc # "idle")
                    => proc'[p].i >= proc[p].i /\ proc'[p].batch = proc[p].batch
             /\ (proc[p].pc = "idle" /\ proc'[p].pc # "idle") => calls' = calls + 1]_vars

\* an upsert call over two payloads has thrown at the second, after it
\* created and enqueued the first
BatchFailureSemanticsWitness ==
    \E p \in Procs :
        /\ proc[p].kind = "upsert" /\ proc[p].pc = "idle" /\ proc[p].status = "threw"
        /\ Len(proc[p].batch) = 2 /\ DistinctIds(proc[p].batch)
        /\ Counters(proc[p]) = <<1, 1, 0>>
        /\ \E c \in conversations :
              /\ c.claudeConversationId = proc[p].batch[1].id
              /\ Len(queue) >= 1 /\ queue[Len(queue)] = c.id

\* the step with which a processNextConversation call starts in slot p
ProcessStarts(p) ==
    proc[p].pc = "idle" /\ calls' = calls + 1 /\ proc'[p].kind = "process" /\ proc'[p] # proc[p]

\* C18: Empty-queue no-op.  processNextConversation called with an empty
\* queue returns in the step of the call, without an error and without a
\* claimed id, so that it reads no message, calls no provider and writes no
\* vector; the queue and the three stores are as they were.
EmptyQueueNoOp ==
    [][\A p \in Procs :
          (ProcessStarts(p) /\ queue = <<>>) =>
              /\ proc'[p].pc = "idle"
              /\ proc'[p].status = "returned" /\ proc'[p].error = "none"
              /\ proc'[p].claim = 0
              /\ claimed' = claimed
              /\ queue' = queue
              /\ conversations' = conversations
              /\ messages' = messages
              /\ embeddings' = embeddings]_vars

\* a call over an empty queue has returned while a conversation without an
\* embedding is stored
EmptyQueueNoOpWitness ==
    \E p \in Procs :
        /\ proc[p].kind = "process" /\ proc[p].pc = "idle" /\ proc[p].status = "returned"
        /\ proc[p].claim = 0
        /\ queue = <<>>
        /\ \E c \in conversations : EmbeddingsOf(embeddings, c.id) = {}

\* C19: Empty conversation fails loudly.  When the message read of a
\* processNextConversation call finds no message row for the claimed id, the
\* call ends with an error in that step and the embedding rows are as they
\* were; a call is at its provider call or at its vector write only with a
\* text built from at least one message.
EmptyConversationFailsLoudly ==
    /\ [][\A p \in Procs :
             (/\ proc[p].kind = "process" /\ proc[p].pc = "getMessages"
              /\ proc'[p] # proc[p]
              /\ MessagesOf(messages, proc[p].claim) = {}) =>
                 /\ proc'[p].pc = "idle"
                 /\ proc'[p].status = "threw"
                 /\ embeddings' = embeddings]_vars
    /\ [](\A p \in Procs :
             (proc[p].kind = "process" /\ proc[p].pc \in {"embed", "save"}) =>
                 /\ Len(proc[p].text) >= 1
                 /\ MessagesOf(messages, proc[p].claim) # {})

\* a call has claimed the id of a conversation without message rows and has
\* thrown; the conversation has no embedding
EmptyConversationFailsLoudlyWitness ==
    \E p \in Procs :
        /\ proc[p].kind = "process" /\ proc[p].pc = "idle" /\ proc[p].status = "threw"
        /\ proc[p].error = "NoMessages"
        /\ \E c \in conversations : c.id = proc[p].claim
        /\ MessagesOf(messages, proc[p].claim) = {}
        /\ EmbeddingsOf(embeddings, proc[p].claim) = {}

\* C20: Worker error propagation without partial write.  When the provider
\* call or the vector write of a processNextConversation call fails, that
\* step ends the call with the error.  No step of a call other than its
\* successful return changes an embedding row, so that after the error the
\* row of the claimed conversation is as it was before the call: absent, or
\* the old row with its full vector.  Every stored vector is a full vector.
WorkerErrorNoPartialWrite ==
    /\ [][\A p \in Procs :
             (proc[p].kind = "process" /\ proc[p].pc # "idle" /\ proc'[p] # proc[p]) =>
                 /\ (proc[p].pc \in {"embed", "save"} /\ failures' # failures) =>
                        /\ proc'[p].pc = "idle" /\ proc'[p].status = "threw"
                        /\ proc'[p].error \in {"ProviderError", "DatabaseError"}
                 /\ ~(proc'[p].pc = "idle" /\ proc'[p].status = "returned") =>
                        embeddings' = embeddings]_vars
    /\ [][\A p \in Procs : ProcessStarts(p) => embeddings' = embeddings]_vars
    /\ [](\A e \in embeddings : e.embedding.dimensions = 1024)

\* a call has thrown the provider's error for a conversation that has an
\* embedding row, written before the call
WorkerErrorNoPartialWriteWitness ==
    \E p \in Procs :
        /\ proc[p].kind = "process" /\ proc[p].pc = "idle" /\ proc[p].status = "threw"
        /\ proc[p].error = "ProviderError"
        /\ calls = 1
        /\ \E e \in EmbeddingsOf(embeddings, proc[p].claim) : e.embedding.dimensions = 1024

\* C21: External ID uniqueness under concurrency.  In every state of every
\* interleaving of upsert calls, no two conversation rows have the same
\* external id.  When a call that found the id absent comes to its insert
\* after another call has inserted a row of that id, the insert fails: the
\* call ends with the store's error and the conversation rows are as they
\* were.
ExternalIdUnique ==
    /\ [](\A a, b \in conversations :
             a.claudeConversationId = b.claudeConversationId => a = b)
    /\ [][\A p \in Procs :
             (/\ proc[p].kind = "upsert" /\ proc[p].pc = "create"
              /\ proc'[p] # proc[p]
              /\ \E c \in conversations : c.claudeConversationId = conv(p).id) =>
                 /\ proc'[p].pc = "idle"
                 /\ proc'[p].status = "threw"
                 /\ proc'[p].error = "DatabaseError"
                 /\ conversations' = conversations]_vars

\* two calls found the same external id absent; one has inserted its row,
\* the other has thrown at its insert with no operation having failed
ExternalIdUniqueWitness ==
    \E p, q \in Procs :
        /\ p # q
        /\ proc[p].kind = "upsert" /\ proc[p].pc = "idle" /\ proc[p].status = "threw"
        /\ proc[p].error = "DatabaseError"
        /\ failures = 0
        /\ proc[q].kind = "upsert" /\ proc[q].batch[1].id = proc[p].batch[1].id
        /\ \E c \in conversations : c.claudeConversationId = proc[p].batch[1].id

\* C22: Enqueued conversations have messages.  In every reachable state,
\* also after calls that failed part-way, every id held in the queue and
\* every id that processNext has returned is the id of a conversation with
\* at least one stored message row.
EnqueuedHaveMessages ==
    /\ \A k \in 1..Len(queue) :
          /\ \E c \in conversations : c.id = queue[k]
          /\ MessagesOf(messages, queue[k]) # {}
    /\ \A k \in 1..Len(claimed) :
          /\ \E c \in conversations : c.id = claimed[k]
          /\ MessagesOf(messages, claimed[k]) # {}

\* the processNextConversation calls that hold a claimed id
Draining == {p \in Procs : proc[p].kind = "process" /\ proc[p].pc \in {"getMessages", "embed", "save"}}

\* C23: At most one concurrent drain.  While a processNextConversation call
\* is suspended between its claim and the end of its vector write, another
\* call that starts obtains no id from processNext and returns at once, so
\* that at most one claimed conversation is being processed at any time.
AtMostOneDrain == Cardinality(Draining) <= 1

\* a call of search or of get_by_date_range returns in this step
RetrievalReturns(p) ==
    /\ proc[p].pc \in {"findMessages", "rangeMessages"}
    /\ proc'[p].pc = "idle"
    /\ proc'[p].status = "returned"

\* the stored message rows of conversation id
StoredRowsOf(id) == {r \in messages : r.conversationId = id}

\* C24: Hydration join.  In the result of search and of get_by_date_range
\* each returned conversation carries exactly the stored message rows whose
\* conversation id is its own internal id, none missing, none twice, none of
\* another conversation, in ascending order of sequence number.
HydrationJoin ==
    [][\A p \in Procs : RetrievalReturns(p) =>
          \A k \in 1..Len(proc'[p].result) :
              LET entry == proc'[p].result[k]
              IN /\ {entry.messages[j] : j \in 1..Len(entry.messages)} = StoredRowsOf(entry.id)
                 /\ Len(entry.messages) = Cardinality(StoredRowsOf(entry.id))
                 /\ \A i, j \in 1..Len(entry.messages) :
                        i < j => entry.messages[i].sequence_number < entry.messages[j].sequence_number]_vars

\* a search has returned two or more conversations, one of them with two or
\* more messages, after a date-range call that returned
HydrationJoinWitness ==
    \E p \in Procs :
        /\ SearchReturned(p)
        /\ Len(proc[p].result) >= 2
        /\ \E k \in 1..Len(proc[p].result) : Len(proc[p].result[k].messages) >= 2
        /\ proc[p].prev.kind = "dateRange"
        /\ proc[p].prev.status = "returned"
\* the step in which the conversation row of the payload is written, or the
\* write is refused
WritesConversation(p) ==
    /\ proc[p].kind = "upsert"
    /\ proc[p].pc \in {"create", "update"}
    /\ proc'[p] # proc[p]
    /\ failures' = failures

\* C25: Title default.  Ingesting a payload whose title is absent or null
\* succeeds, and the conversation row it writes carries the placeholder
\* title 'Untitled Conversation'.
TitleDefault ==
    [][\A p \in Procs :
          (WritesConversation(p) /\ conv(p).title \in {undefined, null}) =>
              /\ ~UpsertThrows(p)
              /\ \E c \in conversations' :
                    c.claudeConversationId = conv(p).id /\ c.title = DefaultTitle]_vars
\* no upsert call is between its start and its return or throw
NoUpsertInProgress == \A p \in Procs : ~(proc[p].kind = "upsert" /\ proc[p].pc # "idle")

\* C26: Cached count matches rows.  Whenever no upsert call is in progress,
\* the messageCount of every conversation row is the number of message rows
\* stored for that conversation: after creations, growth, shrinkage and
\* calls aborted by a store failure.
CachedCountMatchesRows ==
    NoUpsertInProgress =>
        \A c \in conversations : c.messageCount = Cardinality(MessagesOf(messages, c.id))
\* call p was a retry: it has returned, and the call before it was given the
\* identical batch and threw
RetryReturned(p) ==
    /\ proc[p].kind = "upsert" /\ proc[p].pc = "idle" /\ proc[p].status = "returned"
    /\ proc[p].prev.kind = "upsert" /\ proc[p].prev.status = "threw"
    /\ proc[p].prev.batch = proc[p].batch
    /\ DistinctIds(proc[p].batch)

\* C27: Retry convergence.  When an upsert call was aborted by a failed store
\* write and the identical batch is retried without a further failure, then
\* after the retry every conversation of the batch has a row, every message
\* of its payload is stored and its internal id has been enqueued.
RetryConverges ==
    \A p \in Procs :
        RetryReturned(p) =>
            \A k \in 1..Len(proc[p].batch) :
                \E c \in conversations :
                    /\ c.claudeConversationId = proc[p].batch[k].id
                    /\ RowsFor(c.id, proc[p].batch[k].messages) \subseteq messages
                    /\ \E i \in 1..Len(enqueued) : enqueued[i] = c.id
\* the vector the provider computes from the messages stored for conversation id
FreshEmbedding(id) == Embed(combinedText(findByConversationId(id)))

\* no upsert call was aborted between the write of a conversation row and
\* the end of the write of its messages
UpsertsCompleted == \A c \in conversations : c.messageCount = Len(applied[c.id])

\* C28: Recovery of lost queue entries.  When reloadQueue has returned and
\* processNextConversation was then called, with no failed operation, until
\* the queue is empty, every conversation has an embedding row computed from
\* the messages now stored for it: also a conversation whose queue entry was
\* lost and which had an embedding row when upsert last updated it.
RecoveryRestoresEmbeddings ==
    (draining /\ AllIdle /\ isEmpty(queue) /\ UpsertsCompleted) =>
        \A c \in conversations :
            \E e \in embeddings : e.conversationId = c.id /\ e.embedding = FreshEmbedding(c.id)
\* C29: Embedding freshness at quiescence.  In every interleaving of upsert
\* and processNextConversation calls, overlapping ones included, in which no
\* operation fails: once the queue is empty and no call is in progress, every
\* conversation whose id was enqueued has an embedding row computed from the
\* messages stored for it at that moment.
FreshAtQuiescence ==
    (AllIdle /\ isEmpty(queue) /\ failures = 0) =>
        \A c \in conversations :
            (\E i \in 1..Len(enqueued) : enqueued[i] = c.id) =>
                \E e \in embeddings : e.conversationId = c.id /\ e.embedding = FreshEmbedding(c.id)
\* C30: Wholesale rewrite.  When upsert has taken the update path with the
\* messages m[0..n-1] and no store failure, then for every i in 0..n-1 the
\* stored row at sequence number i has the role and the content of m[i]:
\* also a row that was there before with another role.
WholesaleRewrite ==
    [][\A p \in Procs :
          (proc[p].pc = "messages" /\ proc[p].path = "update" /\ PayloadDone(p)) =>
              \A k \in 1..Len(conv(p).messages) :
                  \E r \in messages' :
                      /\ r.conversationId = proc[p].cid
                      /\ r.sequence_number = k - 1
                      /\ r.role = conv(p).messages[k].role
                      /\ r.content = conv(p).messages[k].content]_vars
====
